---- MODULE Spec2Model ----
(***************************************************************************)
(* Tone.MultiSampler (src/Tone/instrument/MultiSampler.js) and the         *)
(* Tone.BufferSource voices it schedules (src/Tone/source/BufferSource.js).*)
(*                                                                         *)
(* Time is counted in integer ticks of the audio clock.  One tick is far   *)
(* longer than one sample frame, so `t >= _startTime + sampleTime` on tick *)
(* values is `t > _startTime`.  An optional JavaScript argument is the     *)
(* empty tuple when it is undefined and a one-element tuple otherwise;     *)
(* null is the empty tuple too.  The handle Tone.context.setTimeout        *)
(* returns is the pair of the source that set the timeout and the count of *)
(* the timeouts that source has set: handles are unique, and a source only *)
(* ever clears a handle it was given.                                      *)
(***************************************************************************)
EXTENDS Integers, Sequences, FiniteSets, TLC

VARIABLES
    buffers,        \* MultiSampler._buffers: MIDI key -> loaded flag of the stored buffer
    activeSources,  \* MultiSampler._activeSources: MIDI note -> queue of source ids
    sources,        \* every Tone.BufferSource constructed so far, in construction order
    timeouts,       \* the pending timeouts of Tone.context: [id, src, at]
    now,            \* Tone.context.now()
    attack,         \* MultiSampler.attack
    release,        \* MultiSampler.release
    disposed,       \* MultiSampler.dispose has run
    ret             \* the last call made and its outcome

vars == <<buffers, activeSources, sources, timeouts, now,
          attack, release, disposed, ret>>

----------------------------------------------------------------------------
(* Bounds of the model. *)

MaxMidi == 48          \* the notes asked of _findClosest are 0..MaxMidi
MaxTime == 2           \* the clock stops ticking at MaxTime
MaxSources == 2        \* BufferSources one MultiSampler run constructs
MaxStops == 2          \* explicit stop calls on the voice of SpecVoice
BufferDuration == 2    \* buffer.duration of every loaded buffer, in ticks
MaxFade == 1           \* the fade times configured and passed are 0..MaxFade
MaxKeyLen == 3         \* the note keys given to add and to the constructor have 0..MaxKeyLen characters

(* Program constants. *)

MAX_INTERVAL == 24
Unset == -1            \* the initial _startTime, _stopTime and _onendedTimeout
DefaultGain == 1
DefaultAttack == 0     \* Tone.MultiSampler.defaults.attack
DefaultRelease == 1    \* Tone.MultiSampler.defaults.release (0.1 s), as one tick
A4 == 69               \* the MIDI number of the pitch "A4"

----------------------------------------------------------------------------
(* Tone.js helpers. *)

Undef == <<>>
Null == <<>>
Some(x) == <<x>>

isUndef(val) == val = Undef

defaultArg(given, fallback) == IF isUndef(given) THEN fallback ELSE given[1]

\* Tone.prototype.toSeconds on a time argument: undefined means now.
toSeconds(time, nowv) == IF isUndef(time) THEN nowv ELSE time[1]

Max(a, b) == IF a >= b THEN a ELSE b
Min(a, b) == IF a <= b THEN a ELSE b

\* Tone.intervalToFrequencyRatio: Math.pow(2, interval/12), kept as base and exponent
intervalToFrequencyRatio(interval) == [base |-> 2, num |-> interval, den |-> 12]

\* Tone.Buffers.prototype.has
has(bufs, key) == key \in DOMAIN bufs

----------------------------------------------------------------------------
(* MultiSampler._findClosest: the while loop, one iteration per call. *)

(* Variants of the search with one line changed, for checking that the     *)
(* properties below depend on it.                                          *)

\* the sample below is tested before the sample above
RECURSIVE findClosestBelowFirst(_, _, _)
findClosestBelowFirst(bufs, midi, interval) ==
    IF interval < MAX_INTERVAL
    THEN IF has(bufs, midi - interval) THEN Some(interval)
         ELSE IF has(bufs, midi + interval) THEN Some(-interval)
         ELSE findClosestBelowFirst(bufs, midi, interval + 1)
    ELSE Null

\* the radius is inclusive
RECURSIVE findClosestInclusive(_, _, _)
findClosestInclusive(bufs, midi, interval) ==
    IF interval <= MAX_INTERVAL
    THEN IF has(bufs, midi + interval) THEN Some(-interval)
         ELSE IF has(bufs, midi - interval) THEN Some(interval)
         ELSE findClosestInclusive(bufs, midi, interval + 1)
    ELSE Null

RECURSIVE findClosestFrom(_, _, _)
findClosestFrom(bufs, midi, interval) ==
    IF interval < MAX_INTERVAL
    THEN IF has(bufs, midi + interval) THEN Some(-interval)
         ELSE IF has(bufs, midi - interval) THEN Some(interval)
         ELSE findClosestFrom(bufs, midi, interval + 1)
    ELSE Null

findClosest(bufs, midi) == findClosestFrom(bufs, midi, 0)

----------------------------------------------------------------------------
(* Note keys.  A JavaScript value given as a key is a string, kept as the  *)
(* sequence of its characters, or a number.  The bank is a JavaScript      *)
(* object, so the name an entry is stored under is the string form of the  *)
(* key: the decimal form of an integer names the same entry as that        *)
(* integer, and every other name (such as "4." or "4n") is kept as a       *)
(* number below every MIDI key, one per name.                              *)

StringKey(str) == [type |-> "string", str |-> str, num |-> 0]
NumberKey(num) == [type |-> "number", str |-> <<>>, num |-> num]

isString(arg) == arg.type = "string"

\* the characters a key is written with: two pitch letters (the second is also
\* the flat sign), the sharp sign, a digit, the minus sign, the point, another letter
KeyChars == {"A", "b", "#", "4", "-", ".", "n"}

isDigit(c) == c \in {"0", "1", "2", "3", "4", "5", "6", "7", "8", "9"}
isPitchLetter(c) == c \in {"a", "b", "c", "d", "e", "f", "g",
                           "A", "B", "C", "D", "E", "F", "G"}
digitValue(c) ==
    CASE c = "0" -> 0 [] c = "1" -> 1 [] c = "2" -> 2 [] c = "3" -> 3 [] c = "4" -> 4
      [] c = "5" -> 5 [] c = "6" -> 6 [] c = "7" -> 7 [] c = "8" -> 8 [] c = "9" -> 9

\* the character of str at position i, "" past the end
At(str, i) == IF i \in 1..Len(str) THEN str[i] ELSE ""

\* the number of digits of str from position i on
RECURSIVE digitRun(_, _)
digitRun(str, i) == IF isDigit(At(str, i)) THEN 1 + digitRun(str, i + 1) ELSE 0

\* the value of the n digits of str from position i on
RECURSIVE decimalValue(_, _, _)
decimalValue(str, i, n) ==
    IF n = 0 THEN 0 ELSE decimalValue(str, i, n - 1) * 10 + digitValue(str[i + n - 1])

\* str continues with the characters of part from position i on
startsWith(str, i, part) ==
    \A j \in 1..Len(part) : At(str, i + j - 1) = part[j]

\* the accidentals of the pattern of isNote: (?:b|#|x|bb)?
Accidentals == {<<"b">>, <<"#">>, <<"x">>, <<"b", "b">>, <<>>}

\* (-?[0-9]+) matches in str at position i
octaveAt(str, i) == digitRun(str, IF At(str, i) = "-" THEN i + 1 ELSE i) > 0

\* the accidentals with which /^([a-g]{1}(?:b|#|x|bb)?)(-?[0-9]+)/i matches str
noteMatches(str) ==
    {a \in Accidentals : /\ isPitchLetter(At(str, 1))
                         /\ startsWith(str, 2, a)
                         /\ octaveAt(str, 2 + Len(a))}

\* Tone.isNote
isNote(arg) == isString(arg) /\ noteMatches(arg.str) # {}

\* Tone.Frequency(note).toMidi() of a string isNote accepts: twelve semitones
\* per octave, "A4" is 69
pitchClass(c) ==
    CASE c \in {"c", "C"} -> 0 [] c \in {"d", "D"} -> 2 [] c \in {"e", "E"} -> 4
      [] c \in {"f", "F"} -> 5 [] c \in {"g", "G"} -> 7 [] c \in {"a", "A"} -> 9
      [] c \in {"b", "B"} -> 11
accidentalOffset(a) ==
    CASE a = <<>> -> 0 [] a = <<"b">> -> -1 [] a = <<"#">> -> 1
      [] a = <<"x">> -> 2 [] a = <<"b", "b">> -> -2
toMidi(str) ==
    LET a == CHOOSE x \in noteMatches(str) : TRUE
        i == 2 + Len(a)
        neg == At(str, i) = "-"
        first == IF neg THEN i + 1 ELSE i
        digits == decimalValue(str, first, digitRun(str, first))
        octave == IF neg THEN -digits ELSE digits
    IN A4 + (octave - 4) * 12 + (pitchClass(str[1]) - pitchClass("A")) + accidentalOffset(a)

\* parseFloat: the number of characters of the decimal literal the key begins
\* with, 0 when it begins with none (the result is then NaN); a number is itself
parseFloat(arg) ==
    IF ~isString(arg) THEN [nan |-> FALSE, len |-> 0]
    ELSE LET str == arg.str
             sign == IF At(str, 1) \in {"-", "+"} THEN 1 ELSE 0
             int == digitRun(str, sign + 1)
             frac == IF At(str, sign + int + 1) = "."
                     THEN digitRun(str, sign + int + 2) ELSE 0
             point == IF At(str, sign + int + 1) = "." /\ int + frac > 0 THEN 1 ELSE 0
         IN IF int + frac > 0
            THEN [nan |-> FALSE, len |-> sign + int + point + frac]
            ELSE [nan |-> TRUE, len |-> 0]

isNaN(val) == val.nan

\* the place of a character among the characters of keys
charCode(c) ==
    CASE c = "A" -> 1 [] c = "b" -> 2 [] c = "#" -> 3 [] c = "4" -> 4
      [] c = "-" -> 5 [] c = "." -> 6 [] c = "n" -> 7
RECURSIVE nameCode(_, _)
nameCode(str, i) ==
    IF i > Len(str) THEN 0 ELSE charCode(str[i]) + 8 * nameCode(str, i + 1)

\* the string is the decimal form of an integer
isIntegerName(str) ==
    LET sign == IF At(str, 1) = "-" THEN 1 ELSE 0
    IN Len(str) > sign /\ digitRun(str, sign + 1) = Len(str) - sign

\* the property name of the bank a raw key goes under
propertyName(arg) ==
    IF ~isString(arg) THEN arg.num
    ELSE LET str == arg.str
             sign == IF At(str, 1) = "-" THEN 1 ELSE 0
         IN IF isIntegerName(str)
            THEN (IF sign = 1 THEN -1 ELSE 1) * decimalValue(str, sign + 1, Len(str) - sign)
            ELSE -(10^MaxKeyLen + nameCode(str, 1))

\* Tone.Buffers.prototype.add: the buffer given is stored under name, over any
\* buffer stored there; loaded tells whether the buffer given has loaded
buffersAdd(bufs, name, loaded) ==
    [k \in DOMAIN bufs \cup {name} |-> IF k = name THEN loaded ELSE bufs[k]]

\* Tone.Buffers.prototype.loaded: every buffer stored has loaded
buffersLoaded(bufs) == \A k \in DOMAIN bufs : bufs[k]

\* the getter with `loaded` of the first buffer only
getLoadedFirst(bufs) == DOMAIN bufs = {} \/ bufs[CHOOSE k \in DOMAIN bufs : \A j \in DOMAIN bufs : k <= j]

\* Tone.MultiSampler.prototype.loaded
getLoaded(bufs) == buffersLoaded(bufs)

\* the outcome of a call on the bank
BankOutcome(bufs, err) == [bufs |-> bufs, err |-> err]

\* add without the final throw: a key that is no note is stored as it is
addUnchecked(bufs, note, loaded) ==
    IF isNote(note)
    THEN BankOutcome(buffersAdd(bufs, toMidi(note.str), loaded), "none")
    ELSE BankOutcome(buffersAdd(bufs, propertyName(note), loaded), "none")

\* Tone.MultiSampler.prototype.add
add(bufs, note, loaded) ==
    IF isNote(note)
    THEN BankOutcome(buffersAdd(bufs, toMidi(note.str), loaded), "none")
    ELSE IF ~isNaN(parseFloat(note))
    THEN BankOutcome(buffersAdd(bufs, propertyName(note), loaded), "none")
    ELSE BankOutcome(bufs, "InvalidKey")

\* the loop of the constructor over urls, the entries [note, loaded] in the order
\* of `for (var note in urls)`, from entry i on; then new Tone.Buffers(urlMap)
RECURSIVE ingest(_, _, _)
ingest(urlMap, urls, i) ==
    IF i > Len(urls) THEN BankOutcome(urlMap, "none")
    ELSE LET note == urls[i].note
         IN IF isNote(note)
            THEN ingest(buffersAdd(urlMap, toMidi(note.str), urls[i].loaded), urls, i + 1)
            ELSE IF ~isNaN(parseFloat(note))
            THEN ingest(buffersAdd(urlMap, propertyName(note), urls[i].loaded), urls, i + 1)
            ELSE BankOutcome(urlMap, "InvalidKey")

----------------------------------------------------------------------------
(* Tone.BufferSource.  A source is a record; `buffer` is the key of the    *)
(* buffer it is bound to (Null once disposed) and `loaded` tells whether   *)
(* that buffer has loaded.  gainEvents is the automation scheduled on      *)
(* _gainNode.gain; native is the (time, offset) handed to                  *)
(* AudioBufferSourceNode.start; ended counts the calls of onended.         *)

BufferSource(buffer, loaded, playbackRate, fadeIn, fadeOut, loop, loopStart, loopEnd) ==
    [ startTime      |-> Unset,
      stopTime       |-> Unset,
      gain           |-> DefaultGain,
      onendedTimeout |-> Unset,
      buffer         |-> Some(buffer),
      loaded         |-> loaded,
      playbackRate   |-> playbackRate,
      fadeIn         |-> fadeIn,
      fadeOut        |-> fadeOut,
      loop           |-> loop,
      loopStart      |-> loopStart,
      loopEnd        |-> loopEnd,
      onended        |-> TRUE,
      gainEvents     |-> {},
      native         |-> Undef,
      computedDur    |-> Undef,
      ended          |-> 0 ]

\* AudioParam automation events
setValueAtTime(value, time) == [op |-> "set", v |-> value, t |-> time]
linearRampToValueAtTime(value, time) == [op |-> "ramp", v |-> value, t |-> time]
\* cancelScheduledValues(time + sampleTime): on tick values, the events after time
cancelScheduledValues(events, time) == {e \in events : e.t <= time}

\* Tone.context.clearTimeout / setTimeout, of source src
clearTimeoutNothing(tos, src, id) == tos
clearTimeoutOfAnySource(tos, src, id) == {t \in tos : t.id # id}
clearTimeout(tos, src, id) == {t \in tos : ~(t.src = src /\ t.id = id)}
setTimeoutDueAtOnce(tos, src, id, at) == tos \cup {[id |-> id, src |-> src, at |-> 0]}
setTimeout(tos, src, id, at) == tos \cup {[id |-> id, src |-> src, at |-> at]}

\* The outcome of a call on source s: the source, the context's timeouts, the error
Outcome(s, tos, err) == [s |-> s, tos |-> tos, err |-> err]

\* this.buffer.loaded, of a source that still has its buffer
bufferLoadedAlways(s) == TRUE
bufferLoaded(s) == s.loaded

\* this._startTime !== -1, the guard of start
alreadyStartedByStop(s) == s.stopTime # Unset
alreadyStarted(s) == s.startTime # Unset

\* this._startTime as start records it
startTimeWithoutFade(time, fadeInTime) == time
startTimeOf(time, fadeInTime) == time + fadeInTime

\* this._stopTime as stop records it
stopTimeNeverEarlier(s, time, fadeOutTime) == Max(s.stopTime, time + fadeOutTime)
stopTimeOf(s, time, fadeOutTime) == time + fadeOutTime

\* the time at which the curve of stop begins: time = Math.max(this._startTime, time)
curveTimeAsAsked(s, time) == time
curveTime(s, time) == Max(s.startTime, time)

\* Tone.BufferSource.prototype.stop
stop(s, id, tos, nowv, time, fadeOutTime) ==
    IF s.buffer = Null THEN Outcome(s, tos, "TypeError")
    ELSE IF bufferLoaded(s)
    THEN LET t0 == toSeconds(time, nowv)
             fo == IF isUndef(fadeOutTime) THEN s.fadeOut ELSE fadeOutTime[1]
             stopTime == stopTimeOf(s, t0, fo)
             kept == cancelScheduledValues(s.gainEvents, s.startTime)
             t1 == curveTime(s, t0)
             curve == IF fo > 0
                      THEN {setValueAtTime(s.gain, t1), linearRampToValueAtTime(0, t1 + fo)}
                      ELSE {setValueAtTime(0, t1)}
         IN Outcome([s EXCEPT !.stopTime = stopTime,
                              !.gainEvents = kept \cup curve,
                              !.onendedTimeout = @ + 1],
                    setTimeout(clearTimeout(tos, id, s.onendedTimeout),
                               id, s.onendedTimeout + 1, stopTime),
                    "none")
    ELSE Outcome(s, tos, "BufferNotReady")

\* the wrap taken from the loop end on, not past it
wrapOffsetFromLoopEnd(s, offset) ==
    LET loopEnd == IF s.loopEnd # 0 THEN s.loopEnd ELSE BufferDuration
        loopStart == s.loopStart
        loopDuration == loopEnd - loopStart
    IN IF s.loop /\ offset >= loopEnd
       THEN ((offset - loopStart) % loopDuration) + loopStart
       ELSE offset

\* the loop-offset wrap of start
wrapOffset(s, offset) ==
    LET loopEnd == IF s.loopEnd # 0 THEN s.loopEnd ELSE BufferDuration
        loopStart == s.loopStart
        loopDuration == loopEnd - loopStart
    IN IF s.loop /\ offset > loopEnd
       THEN ((offset - loopStart) % loopDuration) + loopStart
       ELSE offset

\* the duration start resolves
resolveDurationUnclipped(s, offset, duration) ==
    Max(defaultArg(duration, BufferDuration - offset), 0)
resolveDurationClipsLoop(s, offset, duration) ==
    Min(Max(defaultArg(duration, BufferDuration - offset), 0), BufferDuration - offset)
resolveDuration(s, offset, duration) ==
    LET computedDur == Max(defaultArg(duration, BufferDuration - offset), 0)
    IN IF ~s.loop THEN Min(computedDur, BufferDuration - offset) ELSE computedDur

\* Tone.BufferSource.prototype.start
start(s, id, tos, nowv, time, offset, duration, gain, fadeInTime) ==
    IF alreadyStarted(s) THEN Outcome(s, tos, "AlreadyStarted")
    ELSE IF s.buffer = Null THEN Outcome(s, tos, "TypeError")
    ELSE IF bufferLoaded(s)
    THEN LET t0 == toSeconds(time, nowv)
             off == IF s.loop THEN defaultArg(offset, s.loopStart)
                    ELSE defaultArg(offset, 0)
             g == defaultArg(gain, DefaultGain)
             fi == IF isUndef(fadeInTime) THEN s.fadeIn ELSE fadeInTime[1]
             ramp == IF fi > 0
                     THEN {setValueAtTime(0, t0), linearRampToValueAtTime(g, t0 + fi)}
                     ELSE {setValueAtTime(g, t0)}
             computedDur == resolveDuration(s, off, duration)
             s1 == [s EXCEPT !.gain = g,
                             !.gainEvents = @ \cup ramp,
                             !.startTime = startTimeOf(t0, fi),
                             !.computedDur = Some(computedDur)]
             r == IF ~s.loop \/ (s.loop /\ ~isUndef(duration))
                  THEN stop(s1, id, tos, nowv, Some(t0 + computedDur + fi), Some(fi))
                  ELSE Outcome(s1, tos, "none")
         IN [r EXCEPT !.s.native = Some(<<t0, wrapOffset(s, off)>>)]
    ELSE Outcome(s, tos, "BufferNotReady")

\* Tone.BufferSource.prototype._onended, run by a timeout
onendedCall(s) == IF s.onended THEN [s EXCEPT !.ended = @ + 1] ELSE s

\* dispose that leaves the timeout of the last stop pending
disposeKeepsTimeout(s, id, tos) ==
    IF s.buffer = Null THEN Outcome(s, tos, "TypeError")
    ELSE Outcome([s EXCEPT !.onended = FALSE,
                           !.buffer = Null,
                           !.startTime = Unset,
                           !.playbackRate = Null],
                 tos, "none")

\* Tone.BufferSource.prototype.dispose
dispose(s, id, tos) ==
    IF s.buffer = Null THEN Outcome(s, tos, "TypeError")
    ELSE Outcome([s EXCEPT !.onended = FALSE,
                           !.buffer = Null,
                           !.startTime = Unset,
                           !.playbackRate = Null],
                 clearTimeout(tos, id, s.onendedTimeout), "none")

\* Tone.BufferSource.prototype.state
stateIgnoringUnset(s, nowv) ==
    IF nowv >= s.startTime /\ nowv < s.stopTime
    THEN "started" ELSE "stopped"
state(s, nowv) ==
    IF s.startTime # Unset /\ nowv >= s.startTime /\ nowv < s.stopTime
    THEN "started" ELSE "stopped"

----------------------------------------------------------------------------
(* The record of the last call: the operation, the note it was given (for *)
(* a timeout that ran, its handle), the source it reached (0 for none),   *)
(* the error it raised, a returned value.                                  *)

Ret(op, note, src, err, val) ==
    [op |-> op, note |-> note, src |-> src, err |-> err, val |-> val]

\* the time arguments a caller passes at clock time nowv: none, or one tick ahead
TimeArgs(nowv) == {Undef, Some(nowv + 1)}

----------------------------------------------------------------------------
(* SpecFind: _findClosest on every bank of at most two keys. *)

FindBanks == {{a, b} : a \in 0..MaxMidi, b \in 0..MaxMidi} \cup {{}}

InitFind ==
    /\ buffers \in {[k \in bank |-> TRUE] : bank \in FindBanks}
    /\ activeSources = <<>>
    /\ sources = <<>>
    /\ timeouts = {}
    /\ now = 0
    /\ attack = 0
    /\ release = 0
    /\ disposed = FALSE
    /\ ret = Ret("new", 0, 0, "none", Undef)

FindClosest(midi) ==
    /\ ret.op = "new"
    /\ ret' = Ret("_findClosest", midi, 0, "none", findClosest(buffers, midi))
    /\ UNCHANGED <<buffers, activeSources, sources, timeouts, now,
                   attack, release, disposed>>

NextFind == \E midi \in 0..MaxMidi : FindClosest(midi)

SpecFind == InitFind /\ [][NextFind]_vars

----------------------------------------------------------------------------
(* Properties of _findClosest, under SpecFind. *)

Bank == DOMAIN buffers
Abs(x) == IF x < 0 THEN -x ELSE x
FindReturned == ret.op = "_findClosest"

\* the distances 1..MAX_INTERVAL-1 at which the bank holds a sample around midi
Hits(midi) == {i \in 1..(MAX_INTERVAL - 1) : midi + i \in Bank \/ midi - i \in Bank}
Smallest(S) == CHOOSE i \in S : \A j \in S : i <= j

\* C1: _findClosest(m) returns 0 when m is in the bank; otherwise, for the
\* smallest i in 1..23 with m+i or m-i in the bank, -i when m+i is in the bank
\* (also on a tie) and +i only when m+i is absent; the key m - d is in the bank.
C1_NearestSignedDistance ==
    FindReturned =>
        LET m == ret.note
            d == ret.val
        IN /\ m \in Bank => d = Some(0)
           /\ (m \notin Bank /\ Hits(m) # {}) =>
                 LET i == Smallest(Hits(m))
                 IN d = IF m + i \in Bank THEN Some(-i) ELSE Some(i)
           /\ d # Null => (m - d[1]) \in Bank

\* a tie: samples at the same distance above and below, none closer, the one above chosen
C1_Witness ==
    /\ FindReturned
    /\ ret.note \notin Bank
    /\ \E i \in 2..(MAX_INTERVAL - 1) :
          /\ Bank = {ret.note + i, ret.note - i}
          /\ ret.val = Some(-i)

\* C2: _findClosest never returns a distance of absolute value >= MAX_INTERVAL;
\* when every sample of the bank is MAX_INTERVAL or more semitones away it returns null.
C2_RadiusExclusive ==
    FindReturned =>
        /\ ret.err = "none"
        /\ ret.val # Null => Abs(ret.val[1]) < MAX_INTERVAL
        /\ (\A k \in Bank : Abs(k - ret.note) >= MAX_INTERVAL) => ret.val = Null

\* samples exactly MAX_INTERVAL above and below, and no match
C2_Witness ==
    /\ FindReturned
    /\ Bank = {ret.note + MAX_INTERVAL, ret.note - MAX_INTERVAL}
    /\ ret.val = Null

----------------------------------------------------------------------------
(* One Tone.BufferSource on its own: SpecStart applies start to every      *)
(* configuration and argument list; SpecVoice runs every sequence of       *)
(* start, stop, dispose, state read, buffer load, timeout and clock tick.  *)

Fades == {0, MaxFade}
FadeArgs == {Undef} \cup {Some(f) : f \in Fades}
GainArgs == {Undef}
StartGainArgs == {Undef, Some(0), Some(DefaultGain + 1)}
OffsetArgs == {Undef, Some(0), Some(1), Some(BufferDuration), Some(BufferDuration + 1)}
DurationArgs == {Undef, Some(-1), Some(0), Some(1), Some(BufferDuration),
                 Some(BufferDuration + 1)}

\* loop, loopStart, loopEnd: a loop region is not empty
LoopConfigs ==
    {<<FALSE, 0, 0>>} \cup
    {c \in {<<TRUE, ls, le>> : ls \in 0..(BufferDuration - 1), le \in 0..BufferDuration} :
        c[3] = 0 \/ c[2] < c[3]}

\* the configurations and arguments of the life-cycle runs
LifeLoopConfigs == {<<FALSE, 0, 0>>, <<TRUE, 0, 0>>}
LifeDurationArgs == {Undef, Some(1)}

InitSource(configs) ==
    /\ buffers = <<>>
    /\ activeSources = <<>>
    /\ \E loaded \in BOOLEAN, fi \in Fades, fo \in Fades, c \in configs :
          sources = <<BufferSource(0, loaded, 0, fi, fo, c[1], c[2], c[3])>>
    /\ timeouts = {}
    /\ now = 0
    /\ attack = 0
    /\ release = 0
    /\ disposed = FALSE
    /\ ret = Ret("new", 0, 1, "none", Undef)

InitStart == InitSource(LoopConfigs)
InitVoice == InitSource(LifeLoopConfigs)

VoiceFrame == UNCHANGED <<buffers, activeSources, attack, release, disposed>>

\* the outcome r of a call on source id becomes the state
Apply(id, r) ==
    /\ sources' = [sources EXCEPT ![id] = r.s]
    /\ timeouts' = r.tos

\* the buffer the source was constructed with finishes loading
VLoad ==
    /\ sources[1].buffer # Null
    /\ ~sources[1].loaded
    /\ sources' = [sources EXCEPT ![1].loaded = TRUE]
    /\ ret' = Ret("load", 0, 1, "none", Undef)
    /\ UNCHANGED <<timeouts, now>>
    /\ VoiceFrame

VStart(time, offset, duration, gain, fadeInTime) ==
    \E r \in {start(sources[1], 1, timeouts, now,
                    time, offset, duration, gain, fadeInTime)} :
       /\ Apply(1, r)
       /\ ret' = Ret("start", 0, 1, r.err,
                      IF r.err = "none"
                      THEN <<time, offset, duration, gain, fadeInTime>> ELSE Undef)
       /\ UNCHANGED now
       /\ VoiceFrame

VStop(time, fadeOutTime) ==
    /\ sources[1].onendedTimeout < MaxStops
    /\ \E r \in {stop(sources[1], 1, timeouts, now, time, fadeOutTime)} :
          /\ Apply(1, r)
          /\ ret' = Ret("stop", 0, 1, r.err,
                         IF r.err = "none" THEN <<time, fadeOutTime>> ELSE Undef)
    /\ UNCHANGED now
    /\ VoiceFrame

VDispose ==
    \E r \in {dispose(sources[1], 1, timeouts)} :
       /\ Apply(1, r)
       /\ ret' = Ret("dispose", 0, 1, r.err, Undef)
       /\ UNCHANGED now
       /\ VoiceFrame

\* the state getter is read
VState ==
    /\ ret' = Ret("state", 0, 1, "none", Some(state(sources[1], now)))
    /\ UNCHANGED <<sources, timeouts, now>>
    /\ VoiceFrame

\* a pending timeout of Tone.context comes due and runs _onended
Timeout(t) ==
    /\ t.at <= now
    /\ timeouts' = timeouts \ {t}
    /\ sources' = [sources EXCEPT ![t.src] = onendedCall(@)]
    /\ ret' = Ret("timeout", t.id, t.src, "none", Undef)
    /\ UNCHANGED <<buffers, activeSources, now, attack, release, disposed>>

\* the audio clock advances
Tick ==
    /\ now < MaxTime
    /\ now' = now + 1
    /\ ret' = Ret("tick", 0, 0, "none", Undef)
    /\ UNCHANGED <<buffers, activeSources, sources, timeouts,
                   attack, release, disposed>>

NextStart ==
    \/ \E time \in TimeArgs(now), offset \in OffsetArgs, duration \in DurationArgs,
          gain \in StartGainArgs, fadeInTime \in FadeArgs :
          VStart(time, offset, duration, gain, fadeInTime)
    \/ VLoad

SpecStart == InitStart /\ [][NextStart]_vars

NextVoice ==
    \/ VLoad
    \/ \E time \in TimeArgs(now), duration \in LifeDurationArgs :
          VStart(time, Undef, duration, Undef, Undef)
    \/ \E time \in TimeArgs(now), fadeOutTime \in FadeArgs : VStop(time, fadeOutTime)
    \/ VDispose
    \/ VState
    \/ \E t \in timeouts : Timeout(t)
    \/ Tick

SpecVoice == InitVoice /\ [][NextVoice]_vars

\* The audio clock keeps advancing and Tone.context runs a timeout that is due.
SpecVoiceFair ==
    /\ SpecVoice
    /\ WF_<<now, timeouts>>(Tick)
    /\ WF_<<now, timeouts>>(\E t \in timeouts : Timeout(t))

----------------------------------------------------------------------------
(* SpecKeys: the constructor and add on every key of at most MaxKeyLen     *)
(* characters, each applied once to a sampler just constructed.            *)

KeyStrings == UNION {[1..n -> KeyChars] : n \in 0..MaxKeyLen}
NoteKeys == {StringKey(str) : str \in KeyStrings} \cup {NumberKey(A4)}

\* an entry of the urls given to the constructor: a key of the object and
\* whether the buffer given for it has loaded
Url(str, loaded) == [note |-> StringKey(str), loaded |-> loaded]

\* the mappings a sampler is constructed from: one key, any; or two keys
PairStrings == {<<"A", "4">>, <<"4">>, <<"n">>, <<"b", "b", "4">>, <<"A", "#", "4">>}
KeyUrls ==
    {<<Url(str, loaded)>> : str \in KeyStrings, loaded \in BOOLEAN} \cup
    {<<Url(p[1], FALSE), Url(p[2], TRUE)>> :
        p \in {q \in PairStrings \X PairStrings : q[1] # q[2]}}

InitKeys ==
    /\ buffers \in {ingest(<<>>, urls, 1).bufs :
                      urls \in {<<>>, <<Url(<<"A", "4">>, TRUE)>>,
                                <<Url(<<"A", "4">>, FALSE), Url(<<"4">>, TRUE)>>}}
    /\ activeSources = <<>>
    /\ sources = <<>>
    /\ timeouts = {}
    /\ now = 0
    /\ attack = DefaultAttack
    /\ release = DefaultRelease
    /\ disposed = FALSE
    /\ ret = Ret("new", 0, 0, "none", Undef)

BankFrame == UNCHANGED <<activeSources, sources, timeouts, now, attack, release, disposed>>

\* new Tone.MultiSampler(urls): when the constructor returns, the sampler it made
\* is the one observed; when it throws there is none, and nothing changes
KNew(urls) ==
    /\ ret.val = Undef
    /\ \E r \in {ingest(<<>>, urls, 1)} :
          /\ buffers' = IF r.err = "none" THEN r.bufs ELSE buffers
          /\ ret' = Ret("new", 0, 0, r.err, Some(urls))
    /\ BankFrame

KAdd(note, loaded) ==
    /\ ret.val = Undef
    /\ \E r \in {add(buffers, note, loaded)} :
          /\ buffers' = r.bufs
          /\ ret' = Ret("add", 0, 0, r.err, Some(<<note, loaded>>))
    /\ BankFrame

NextKeys ==
    \/ \E urls \in KeyUrls : KNew(urls)
    \/ \E note \in NoteKeys, loaded \in BOOLEAN : KAdd(note, loaded)

SpecKeys == InitKeys /\ [][NextKeys]_vars

----------------------------------------------------------------------------
(* Properties of the note keys, under SpecKeys. *)

AllDigits(str) == \A i \in 1..Len(str) : isDigit(str[i])
Unsigned(str, signs) == IF At(str, 1) \in signs THEN Tail(str) ELSE str

\* str is an integer or decimal literal: digits, digits with a point, or a point
\* with digits, after an optional sign
IsDecimalLiteral(str) ==
    LET body == Unsigned(str, {"-", "+"})
    IN \E k \in 0..Len(body) :
          /\ AllDigits(SubSeq(body, 1, k))
          /\ \/ k = Len(body) /\ k > 0
             \/ /\ k < Len(body)
                /\ body[k + 1] = "."
                /\ AllDigits(SubSeq(body, k + 2, Len(body)))
                /\ Len(body) > 1

\* str is scientific pitch notation: a letter a..g, an accidental or none, an octave
IsPitchNotation(str) ==
    /\ Len(str) >= 2
    /\ isPitchLetter(str[1])
    /\ \E a \in Accidentals :
          /\ Len(str) > 1 + Len(a)
          /\ SubSeq(str, 2, 1 + Len(a)) = a
          /\ LET octave == Unsigned(SubSeq(str, 2 + Len(a), Len(str)), {"-"})
             IN Len(octave) > 0 /\ AllDigits(octave)

\* the key is a number, or a string that begins with a number or with pitch notation
ValidKey(note) ==
    \/ note.type = "number"
    \/ \E n \in 1..Len(note.str) :
          \/ IsDecimalLiteral(SubSeq(note.str, 1, n))
          \/ IsPitchNotation(SubSeq(note.str, 1, n))

\* C13: add and the constructor throw the key error exactly on a key that is no
\* number and begins with neither a number nor pitch notation; an add that throws
\* leaves the bank as it was and a constructor that throws makes no sampler; an add
\* that is accepted stores the buffer given under one key of the bank.
C13_InvalidKeyRejected ==
    [][/\ ret'.op = "add" =>
             LET note == ret'.val[1][1]
                 loaded == ret'.val[1][2]
             IN IF ValidKey(note)
                THEN /\ ret'.err = "none"
                     /\ \E k \in DOMAIN buffers' :
                           buffers' = buffersAdd(buffers, k, loaded)
                ELSE /\ ret'.err = "InvalidKey"
                     /\ UNCHANGED buffers
       /\ (ret'.op = "new" /\ ret'.val # Undef) =>
             LET urls == ret'.val[1]
             IN IF \A i \in 1..Len(urls) : ValidKey(urls[i].note)
                THEN /\ ret'.err = "none"
                     /\ Cardinality(DOMAIN buffers') \in 1..Len(urls)
                ELSE /\ ret'.err = "InvalidKey"
                     /\ UNCHANGED buffers
    ]_vars

\* an add refused on a bank that holds a buffer, for a key that is not empty
C13_Witness ==
    /\ ret.op = "add"
    /\ ret.err = "InvalidKey"
    /\ Len(ret.val[1][1].str) = MaxKeyLen
    /\ ret.val[1][1].str[MaxKeyLen] = "4"
    /\ DOMAIN buffers # {}

----------------------------------------------------------------------------
(* Tone.MultiSampler. *)

\* this._activeSources[midi].push(...), creating the array when there is none
pushSource(active, midi, id) ==
    IF midi \in DOMAIN active
    THEN [active EXCEPT ![midi] = Append(@, id)]
    ELSE [n \in DOMAIN active \cup {midi} |-> IF n = midi THEN <<id>> ELSE active[n]]

\* the entry this._activeSources[midi].shift() returns
poppedSource(queue) == queue[Len(queue)]
shiftedSource(queue) == Head(queue)

\* the array this._activeSources[midi].shift() leaves
shiftedQueue(queue) == Tail(queue)

\* the key of the buffer triggerAttack plays for a note at distance difference
closestNote(midi, difference) == midi - difference

\* the note triggerAttack registers the source under
registeredUnderSample(midi, difference) == midi - difference
registeredNote(midi, difference) == midi

\* the ids of the sources in the queues of the registry
Queued(active) == UNION {{active[n][i] : i \in 1..Len(active[n])} : n \in DOMAIN active}

\* the entries `for (var midi in this._activeSources)` and forEach visit, in order:
\* the notes ascending, each queue from its head
RECURSIVE queuedEntries(_, _)
queuedEntries(active, notes) ==
    IF notes = {} THEN <<>>
    ELSE LET n == CHOOSE i \in notes : \A j \in notes : i <= j
         IN active[n] \o queuedEntries(active, notes \ {n})

\* the loops of dispose visiting the head of each queue only
RECURSIVE queueHeads(_, _)
queueHeads(active, notes) ==
    IF notes = {} THEN <<>>
    ELSE LET n == CHOOSE i \in notes : \A j \in notes : i <= j
         IN SubSeq(active[n], 1, 1) \o queueHeads(active, notes \ {n})

\* the sources MultiSampler.dispose disposes, in order
disposedHeads(active) == queueHeads(active, DOMAIN active)
disposedEntries(active) == queuedEntries(active, DOMAIN active)

\* event.source.dispose() on the sources ids, in order; a dispose that throws ends it
RECURSIVE disposeEach(_, _, _)
disposeEach(srcs, tos, ids) ==
    IF ids = <<>> THEN [srcs |-> srcs, tos |-> tos, err |-> "none"]
    ELSE LET id == Head(ids)
             r == dispose(srcs[id], id, tos)
         IN IF r.err = "none"
            THEN disposeEach([srcs EXCEPT ![id] = r.s], r.tos, Tail(ids))
            ELSE [srcs |-> srcs, tos |-> tos, err |-> r.err]

SamplerKeys == {60, 64}
SamplerNotes == {60, 62, 90}
\* triggerAttack and triggerRelease are called without a time: at the current time
SamplerTimeArgs == {Undef}

Init ==
    /\ \E bank \in SUBSET SamplerKeys : buffers \in [bank -> BOOLEAN]
    /\ activeSources = <<>>
    /\ sources = <<>>
    /\ timeouts = {}
    /\ now = 0
    /\ attack = DefaultAttack
    /\ release = DefaultRelease
    /\ disposed = FALSE
    /\ ret = Ret("new", 0, 0, "none", Undef)

\* the load of the buffer stored under key completes
BufferLoad(key) ==
    /\ ~disposed
    /\ key \in DOMAIN buffers
    /\ ~buffers[key]
    /\ buffers' = [buffers EXCEPT ![key] = TRUE]
    /\ ret' = Ret("load", key, 0, "none", Undef)
    /\ UNCHANGED <<activeSources, sources, timeouts, now,
                   attack, release, disposed>>

\* what a call of the sampler leaves: the registry, the sources, the context's
\* timeouts, the error raised, the source reached and the distance found
Effect(active, srcs, tos, err, src, val) ==
    [active |-> active, srcs |-> srcs, tos |-> tos,
     err |-> err, src |-> src, val |-> val]

\* the push of triggerAttack, which a start that throws (err) never reaches
registerAlways(active, midi, id, err) == pushSource(active, midi, id)
registerStarted(active, midi, id, err) ==
    IF err = "none" THEN pushSource(active, midi, id) ELSE active

\* triggerAttack with the array of the note created before the search
triggerAttackEagerQueue(bufs, active, srcs, tos, nowv, att, rel, midi, time, velocity) ==
    LET difference == findClosest(bufs, midi)
        made == IF midi \in DOMAIN active THEN active
                ELSE [n \in DOMAIN active \cup {midi} |->
                        IF n = midi THEN <<>> ELSE active[n]]
    IN IF difference # Null
       THEN LET key == closestNote(midi, difference[1])
                id == Len(srcs) + 1
                source == BufferSource(key, bufs[key],
                                       intervalToFrequencyRatio(difference[1]),
                                       att, rel, FALSE, 0, 0)
                r == start(source, id, tos, nowv,
                           time, Some(0), Some(BufferDuration), velocity, Undef)
            IN IF r.err = "none"
               THEN Effect(pushSource(made, registeredNote(midi, difference[1]), id),
                           Append(srcs, r.s), r.tos, "none", id, difference)
               ELSE Effect(made, Append(srcs, r.s), r.tos, r.err, id, difference)
       ELSE Effect(made, srcs, tos, "none", 0, Null)

\* Tone.MultiSampler.prototype.triggerAttack
triggerAttack(bufs, active, srcs, tos, nowv, att, rel, midi, time, velocity) ==
    LET difference == findClosest(bufs, midi)
    IN IF difference # Null
       THEN LET key == closestNote(midi, difference[1])
                id == Len(srcs) + 1
                source == BufferSource(key, bufs[key],
                                       intervalToFrequencyRatio(difference[1]),
                                       att, rel, FALSE, 0, 0)
                r == start(source, id, tos, nowv,
                           time, Some(0), Some(BufferDuration), velocity, Undef)
            IN Effect(registerStarted(active, registeredNote(midi, difference[1]), id, r.err),
                      Append(srcs, r.s), r.tos, r.err, id, difference)
       ELSE Effect(active, srcs, tos, "none", 0, Null)

TriggerAttack(midi, time, velocity) ==
    IF disposed
    THEN /\ ret' = Ret("triggerAttack", midi, 0, "TypeError", Undef)
         /\ UNCHANGED <<buffers, activeSources, sources, timeouts, now,
                        attack, release, disposed>>
    ELSE \E e \in {triggerAttack(buffers, activeSources, sources, timeouts,
                                  now, attack, release, midi, time, velocity)} :
            /\ Len(e.srcs) <= MaxSources
            /\ activeSources' = e.active
            /\ sources' = e.srcs
            /\ timeouts' = e.tos
            /\ ret' = Ret("triggerAttack", midi, e.src, e.err, e.val)
            /\ UNCHANGED <<buffers, now, attack, release, disposed>>

\* triggerRelease with the array of the note created when there is none
triggerReleaseMakesQueue(active, srcs, tos, nowv, rel, midi, time) ==
    IF midi \in DOMAIN active /\ Len(active[midi]) > 0
    THEN LET id == shiftedSource(active[midi])
             r == stop(srcs[id], id, tos, nowv, time, Some(rel))
         IN Effect([active EXCEPT ![midi] = shiftedQueue(@)],
                   [srcs EXCEPT ![id] = r.s], r.tos, r.err, id, Undef)
    ELSE Effect([n \in DOMAIN active \cup {midi} |-> IF n = midi THEN <<>> ELSE active[n]],
                srcs, tos, "none", 0, Undef)

\* Tone.MultiSampler.prototype.triggerRelease
triggerRelease(active, srcs, tos, nowv, rel, midi, time) ==
    IF midi \in DOMAIN active /\ Len(active[midi]) > 0
    THEN LET id == shiftedSource(active[midi])
             r == stop(srcs[id], id, tos, nowv, time, Some(rel))
         IN Effect([active EXCEPT ![midi] = shiftedQueue(@)],
                   [srcs EXCEPT ![id] = r.s], r.tos, r.err, id, Undef)
    ELSE Effect(active, srcs, tos, "none", 0, Undef)

TriggerRelease(midi, time) ==
    IF disposed
    THEN /\ ret' = Ret("triggerRelease", midi, 0, "TypeError", Undef)
         /\ UNCHANGED <<buffers, activeSources, sources, timeouts, now,
                        attack, release, disposed>>
    ELSE \E e \in {triggerRelease(activeSources, sources, timeouts,
                                   now, release, midi, time)} :
            /\ activeSources' = e.active
            /\ sources' = e.srcs
            /\ timeouts' = e.tos
            /\ ret' = Ret("triggerRelease", midi, e.src, e.err, e.val)
            /\ UNCHANGED <<buffers, now, attack, release, disposed>>

\* Tone.MultiSampler.prototype.dispose
SamplerDispose ==
    /\ ~disposed
    /\ \E r \in {disposeEach(sources, timeouts, disposedEntries(activeSources))} :
          /\ sources' = r.srcs
          /\ timeouts' = r.tos
          /\ activeSources' = IF r.err = "none" THEN <<>> ELSE activeSources
          /\ ret' = Ret("dispose", 0, 0, r.err, Undef)
    /\ buffers' = <<>>
    /\ disposed' = TRUE
    /\ UNCHANGED <<now, attack, release>>

Next ==
    \/ \E key \in SamplerKeys : BufferLoad(key)
    \/ \E midi \in SamplerNotes, time \in SamplerTimeArgs, velocity \in GainArgs :
          TriggerAttack(midi, time, velocity)
    \/ \E midi \in SamplerNotes, time \in SamplerTimeArgs : TriggerRelease(midi, time)
    \/ SamplerDispose
    \/ \E t \in timeouts : Timeout(t)
    \/ Tick

Spec == Init /\ [][Next]_vars

----------------------------------------------------------------------------
(* SpecBank: the bank of one sampler under every sequence of add, buffer   *)
(* load, read of `loaded` and dispose, on a few keys.                      *)

BankNotes == {StringKey(<<"A", "4">>), StringKey(<<"4">>), StringKey(<<"b", "4">>),
              StringKey(<<"n">>), NumberKey(A4)}
BankUrls == {<<>>, <<Url(<<"A", "4">>, FALSE)>>, <<Url(<<"A", "4">>, TRUE)>>,
             <<Url(<<"A", "4">>, FALSE), Url(<<"4">>, FALSE)>>}

InitBank ==
    /\ buffers \in {ingest(<<>>, urls, 1).bufs : urls \in BankUrls}
    /\ activeSources = <<>>
    /\ sources = <<>>
    /\ timeouts = {}
    /\ now = 0
    /\ attack = DefaultAttack
    /\ release = DefaultRelease
    /\ disposed = FALSE
    /\ ret = Ret("new", 0, 0, "none", Undef)

\* add on the sampler; once disposed, this._buffers is null
BAdd(note, loaded) ==
    /\ \E r \in {IF disposed
                 THEN BankOutcome(buffers, IF isNote(note) \/ ~isNaN(parseFloat(note))
                                           THEN "TypeError" ELSE "InvalidKey")
                 ELSE add(buffers, note, loaded)} :
          /\ buffers' = r.bufs
          /\ ret' = Ret("add", 0, 0, r.err, Some(<<note, loaded>>))
    /\ BankFrame

\* the load of a buffer of the bank completes
BLoad == \E key \in DOMAIN buffers : BufferLoad(key)

\* `loaded` is read
BLoaded ==
    /\ ret' = IF disposed THEN Ret("loaded", 0, 0, "TypeError", Undef)
              ELSE Ret("loaded", 0, 0, "none", Some(getLoaded(buffers)))
    /\ UNCHANGED buffers
    /\ BankFrame

NextBank ==
    \/ \E note \in BankNotes, loaded \in BOOLEAN : BAdd(note, loaded)
    \/ BLoad
    \/ BLoaded
    \/ SamplerDispose

SpecBank == InitBank /\ [][NextBank]_vars

----------------------------------------------------------------------------
(* Properties of the bank, under SpecBank. *)

\* the keys whose buffer has not finished loading
Pending(bufs) == {k \in DOMAIN bufs : ~bufs[k]}

\* C14: a read of `loaded` gives false whenever a buffer of the bank has not
\* finished loading and true only when none is pending; an add of a buffer that
\* has not loaded makes `loaded` false, and `loaded` goes from false to true only
\* when the load of the last pending buffer completes or that buffer is replaced
\* by one that has loaded.
C14_LoadedIffNonePending ==
    [][/\ (ret'.op = "loaded" /\ ret'.err = "none") =>
             ret'.val = Some(Pending(buffers) = {})
       /\ (ret'.op = "add" /\ ret'.err = "none" /\ ~ret'.val[1][2]) =>
             /\ Pending(buffers') # {}
             /\ ~getLoaded(buffers')
       /\ (~disposed' /\ ~getLoaded(buffers) /\ getLoaded(buffers')) =>
             /\ Cardinality(Pending(buffers)) = 1
             /\ \/ ret'.op = "load" /\ ret'.note \in Pending(buffers)
                \/ ret'.op = "add" /\ ret'.err = "none" /\ ret'.val[1][2]
    ]_vars

\* `loaded` read as false on a bank that had loaded in full before a buffer
\* still loading was added to it
C14_Witness ==
    /\ ret.op = "loaded"
    /\ ret.val = Some(FALSE)
    /\ Cardinality(Pending(buffers)) = 1
    /\ Cardinality(DOMAIN buffers) = 3
    /\ A4 \in DOMAIN buffers
    /\ buffers[A4]

----------------------------------------------------------------------------
(* Properties of Tone.MultiSampler, under Spec.  A step of a live sampler  *)
(* is told by the call it leaves in ret.  Source ids count constructions,  *)
(* so a smaller id is an earlier triggerAttack.                            *)

AttackStep == ret'.op = "triggerAttack" /\ ~disposed
ReleaseStep == ret'.op = "triggerRelease" /\ ~disposed
QueueOf(active, n) == IF n \in DOMAIN active THEN active[n] ELSE <<>>
OtherQueuesUnchanged(n) ==
    /\ DOMAIN activeSources' \ {n} = DOMAIN activeSources \ {n}
    /\ \A m \in DOMAIN activeSources \ {n} : activeSources'[m] = activeSources[m]

\* C3: the queue of a note holds its voices in the order they were registered, and
\* triggerRelease(n) on a non-empty queue removes exactly the oldest entry and calls
\* stop once, on exactly that voice; so N releases stop v1..vN in that order.
C3_ReleaseFIFO ==
    [][(ReleaseStep /\ QueueOf(activeSources, ret'.note) # <<>>) =>
          LET n == ret'.note
              q == activeSources[n]
              v == q[1]
          IN /\ \A i \in 1..Len(q), j \in 1..Len(q) : i < j => q[i] < q[j]
             /\ ret'.src = v
             /\ ret'.err = "none"
             /\ Len(activeSources'[n]) = Len(q) - 1
             /\ \A i \in 1..(Len(q) - 1) : activeSources'[n][i] = q[i + 1]
             /\ OtherQueuesUnchanged(n)
             /\ sources'[v].onendedTimeout = sources[v].onendedTimeout + 1
             /\ sources'[v].stopTime = now + release
             /\ \A t \in (timeouts' \ timeouts) \cup (timeouts \ timeouts') : t.src = v
             /\ \A w \in DOMAIN sources \ {v} : sources'[w] = sources[w]
    ]_vars

\* the first of two voices of one note has just been released; the second is queued
C3_Witness ==
    /\ ret.op = "triggerRelease"
    /\ ret.src = 1
    /\ ret.note \in DOMAIN activeSources
    /\ activeSources[ret.note] = <<2>>

\* C4: on a sampler that has not been disposed, triggerRelease(n) with no queue or an
\* empty queue for n raises nothing, stops no voice and leaves the registry, the
\* sources and the pending timeouts unchanged.
C4_ReleaseNothingNoOp ==
    [][(ReleaseStep /\ QueueOf(activeSources, ret'.note) = <<>>) =>
          /\ ret'.err = "none"
          /\ ret'.src = 0
          /\ UNCHANGED <<activeSources, sources, timeouts, buffers>>
    ]_vars

\* a release of a note whose queue was emptied, while a timeout is pending
C4_Witness ==
    /\ ret.op = "triggerRelease"
    /\ ret.err = "none"
    /\ ret.src = 0
    /\ ~disposed
    /\ ret.note \in DOMAIN activeSources
    /\ activeSources[ret.note] = <<>>
    /\ timeouts # {}

NoSampleInRadius(n) == \A k \in DOMAIN buffers : Abs(k - n) >= MAX_INTERVAL

\* C5: on a sampler that has not been disposed, triggerAttack(n) with no sample
\* within the radius raises nothing, constructs
\* and starts no source and leaves the registry unchanged (no queue for n appears).
C5_AttackNoMatchNoOp ==
    [][(AttackStep /\ NoSampleInRadius(ret'.note)) =>
          /\ ret'.err = "none"
          /\ ret'.src = 0
          /\ UNCHANGED <<activeSources, sources, timeouts, buffers>>
    ]_vars

\* an attack that found nothing in a bank that is not empty
C5_Witness ==
    /\ ret.op = "triggerAttack"
    /\ ret.err = "none"
    /\ ret.val = Null
    /\ ~disposed
    /\ DOMAIN buffers # {}
    /\ NoSampleInRadius(ret.note)

\* what C6 says triggerAttack(n) does on a match at distance d
AttackRegisters(n, d) ==
    LET id == Len(sources) + 1
    IN /\ ret'.err = "none"
       /\ Len(sources') = id
       /\ \A w \in DOMAIN sources : sources'[w] = sources[w]
       /\ (n - d) \in DOMAIN buffers
       /\ sources'[id].buffer = Some(n - d)
       /\ sources'[id].playbackRate = [base |-> 2, num |-> d, den |-> 12]
       /\ sources'[id].startTime # Unset
       /\ sources'[id].native # Undef
       /\ n \in DOMAIN activeSources'
       /\ activeSources'[n] = Append(QueueOf(activeSources, n), id)
       /\ OtherQueuesUnchanged(n)

\* C6 as stated: on every match, triggerAttack(n) constructs one source on the buffer
\* under n - d with ratio 2^(d/12), starts it and appends it to the queue of n.
C6_AttackRegistersAlways ==
    [][(AttackStep /\ ~NoSampleInRadius(ret'.note)) =>
          AttackRegisters(ret'.note, findClosest(buffers, ret'.note)[1])
    ]_vars

\* C6, amended: on a match whose buffer has finished loading, triggerAttack(n)
\* constructs one source on the buffer under n - d with ratio 2^(d/12), starts it
\* and appends it to the queue of n, never to the queue of n - d.
C6_AttackRegistersLoaded ==
    [][(AttackStep /\ ~NoSampleInRadius(ret'.note)
           /\ buffers[ret'.note - findClosest(buffers, ret'.note)[1]]) =>
          AttackRegisters(ret'.note, findClosest(buffers, ret'.note)[1])
    ]_vars

\* a repitched attack: the source plays another key than the note it is queued under
C6_Witness ==
    /\ ret.op = "triggerAttack"
    /\ ret.err = "none"
    /\ ret.val # Null
    /\ ret.val[1] # 0
    /\ ret.note \in DOMAIN activeSources
    /\ \E i \in 1..Len(activeSources[ret.note]) : activeSources[ret.note][i] = ret.src
    /\ sources[ret.src].buffer = Some(ret.note - ret.val[1])

----------------------------------------------------------------------------
(* Properties of Tone.BufferSource, under SpecVoice and SpecStart. *)

Voice == sources[1]

\* C7: once a start has succeeded, every later start fails, with AlreadyStarted while
\* the source is not disposed, and leaves the start and stop times, the pending
\* timeout and the gain automation as they were.
C7_StartOnce ==
    [][(ret'.op = "start" /\ Voice.native # Undef) =>
          /\ ret'.err # "none"
          /\ Voice.buffer # Null => ret'.err = "AlreadyStarted"
          /\ UNCHANGED <<sources, timeouts>>
    ]_vars

\* a second start, refused
C7_Witness ==
    /\ ret.op = "start"
    /\ ret.err = "AlreadyStarted"
    /\ Voice.native # Undef
    /\ Voice.buffer # Null

\* C8: stop on a source that was never started fails with BufferNotReady.
C8_StopBeforeStartFails ==
    (ret.op = "stop" /\ Voice.native = Undef /\ Voice.buffer # Null) =>
        ret.err = "BufferNotReady"

\* C9: start or stop on a source whose buffer has not finished loading fails with
\* BufferNotReady and changes nothing: the start time stays unset, the stop time, the
\* gain automation and the timeouts are as they were.
C9_NotLoadedFails ==
    [][((ret'.op = "start" \/ ret'.op = "stop")
           /\ Voice.buffer # Null /\ ~Voice.loaded) =>
          /\ ret'.err = "BufferNotReady"
          /\ sources'[1].startTime = Unset
          /\ UNCHANGED <<sources, timeouts>>
    ]_vars

\* a start refused for want of a loaded buffer
C9_Witness ==
    /\ ret.op = "start"
    /\ ret.err = "BufferNotReady"
    /\ ~Voice.loaded
    /\ Voice.startTime = Unset
    /\ Voice.gainEvents = {}
    /\ timeouts = {}

\* the arguments of the start that succeeded: time, offset, duration, gain, fadeInTime
StartReturned == ret.op = "start" /\ ret.err = "none"
GivenTime == toSeconds(ret.val[1], now)
GivenOffset == IF Voice.loop THEN defaultArg(ret.val[2], Voice.loopStart)
               ELSE defaultArg(ret.val[2], 0)
GivenDuration == ret.val[3]
GivenFadeIn == IF ret.val[5] = Undef THEN Voice.fadeIn ELSE ret.val[5][1]

\* C10: for a source that does not loop, the duration start resolves, and schedules
\* the automatic stop with, never exceeds buffer.duration - offset, and equals it
\* when no duration is given.
C10_DurationClipped ==
    (StartReturned /\ ~Voice.loop) =>
        LET cd == Voice.computedDur[1]
        IN /\ cd <= BufferDuration - GivenOffset
           /\ GivenDuration = Undef => cd = BufferDuration - GivenOffset
           /\ Voice.stopTime = GivenTime + cd + GivenFadeIn + GivenFadeIn
           /\ \E t \in timeouts : t.id = Voice.onendedTimeout /\ t.at = Voice.stopTime

\* a duration longer than what is left of the buffer, cut down to it
C10_Witness ==
    /\ StartReturned
    /\ ~Voice.loop
    /\ GivenDuration # Undef
    /\ GivenDuration[1] > BufferDuration - GivenOffset
    /\ GivenOffset > 0
    /\ Voice.computedDur = Some(BufferDuration - GivenOffset)

\* the voice was started and the clock is in [effective start, effective stop)
Playing ==
    /\ Voice.startTime # Unset
    /\ Voice.startTime <= now
    /\ now < Voice.stopTime

\* C11: at every clock time the state getter gives Started exactly when the start
\* time is set and start time <= now < stop time, and Stopped otherwise; a source
\* that was never started gives Stopped; a read returns that value and stores nothing.
C11_StateFromTimestamps ==
    /\ state(Voice, now) = (IF Playing THEN "started" ELSE "stopped")
    /\ Voice.native = Undef => state(Voice, now) = "stopped"
    /\ ret.op = "state" => ret.val = Some(state(Voice, now))

\* a read that gave Started
C11_Witness ==
    /\ ret.op = "state"
    /\ ret.val = Some("started")
    /\ Voice.native # Undef
    /\ now < Voice.stopTime

\* the timeouts pending for source id
PendingOf(id) == {t \in timeouts : t.src = id}

\* C12: in every reachable state each source has at most one pending timeout, and
\* it is the one its latest stop set: every stop clears the handle of the stop before.
C12_OnePendingTimer ==
    \A id \in DOMAIN sources :
        /\ Cardinality(PendingOf(id)) <= 1
        /\ \A t \in PendingOf(id) : t.id = sources[id].onendedTimeout

\* a second stop on the voice, while the timeout of the first was pending
C12_Witness ==
    /\ ret.op = "stop"
    /\ ret.err = "none"
    /\ Voice.onendedTimeout >= 1
    /\ now < Voice.stopTime
    /\ Cardinality(PendingOf(1)) = 1

\* the voice has been disposed: its buffer reference is released
Disposed(s) == s.buffer = Null

\* C15: once a source is disposed no timeout is pending for it, and neither
\* the dispose nor any later step invokes its onended, whatever stops came before.
C15_DisposeCancelsTimer ==
    [][Disposed(sources'[1]) =>
          /\ {t \in timeouts' : t.src = 1} = {}
          /\ sources'[1].ended = Voice.ended
          /\ ~sources'[1].onended
    ]_vars

\* a dispose while the timeout of a stop was pending and not yet due
C15_Witness ==
    /\ ret.op = "dispose"
    /\ ret.err = "none"
    /\ Disposed(Voice)
    /\ Voice.onendedTimeout >= 1
    /\ now < Voice.stopTime
    /\ Voice.ended = 0
    /\ timeouts = {}

\* C16: after dispose the start time and the stop time are both back to the unset
\* value of construction, and the buffer reference is released.
C16_DisposeResetsTimes ==
    (ret.op = "dispose" /\ ret.err = "none") =>
        /\ Voice.buffer = Null
        /\ Voice.startTime = Unset
        /\ Voice.stopTime = Unset

\* C17: MultiSampler.dispose disposes the bank, disposes every source that is in a
\* queue of the registry, each one once (none twice, which would throw, and none
\* skipped), leaves every other source alone, and clears the registry.
C17_SamplerDisposeAll ==
    [][(ret'.op = "dispose" /\ ~disposed) =>
          /\ ret'.err = "none"
          /\ buffers' = <<>>
          /\ activeSources' = <<>>
          /\ disposed'
          /\ Len(disposedEntries(activeSources)) = Cardinality(Queued(activeSources))
          /\ DOMAIN sources' = DOMAIN sources
          /\ \A id \in DOMAIN sources :
                IF id \in Queued(activeSources)
                THEN /\ ~Disposed(sources[id])
                     /\ Disposed(sources'[id])
                     /\ {t \in timeouts' : t.src = id} = {}
                ELSE sources'[id] = sources[id]
    ]_vars

\* a sampler disposed with two voices in its registry
C17_Witness ==
    /\ ret.op = "dispose"
    /\ disposed
    /\ Len(sources) = 2
    /\ Disposed(sources[1])
    /\ Disposed(sources[2])
    /\ activeSources = <<>>

\* a duration is in effect at the start that returned
DurationInEffect == ~Voice.loop \/ GivenDuration # Undef

\* C18: when a duration is in effect (the source does not loop, or it loops and a
\* duration was passed), start has called stop once, for time + duration + fadeIn
\* with fadeIn as the fade-out: the stop time is that time plus fadeIn, the gain
\* reaches 0 fadeIn after it, and the timeout of that stop is pending when start
\* returns; a looping source takes a passed duration that is not negative as it is,
\* beyond buffer.duration - offset too.
C18_AutomaticStop ==
    (StartReturned /\ DurationInEffect) =>
        LET cd == Voice.computedDur[1]
            fi == GivenFadeIn
            at == GivenTime + cd + fi
        IN /\ Voice.stopTime = at + fi
           /\ timeouts = {[id |-> Voice.onendedTimeout, src |-> 1, at |-> Voice.stopTime]}
           /\ [op |-> IF fi > 0 THEN "ramp" ELSE "set", v |-> 0,
                t |-> Max(Voice.startTime, at) + fi] \in Voice.gainEvents
           /\ (Voice.loop /\ GivenDuration[1] >= 0) => cd = GivenDuration[1]

\* a looping source started with a duration longer than what is left of the buffer,
\* and a fade-in that is not its configured fade-out
C18_Witness ==
    /\ StartReturned
    /\ Voice.loop
    /\ GivenDuration = Some(BufferDuration + 1)
    /\ GivenOffset > 0
    /\ Voice.computedDur = GivenDuration
    /\ GivenFadeIn > 0
    /\ Voice.fadeOut = 0
    /\ timeouts # {}

\* C19: when start returns on a looping source started without a duration, the
\* stop time is unset and no timeout is pending for the source.
C19_LoopNoAutomaticStop ==
    (StartReturned /\ Voice.loop /\ GivenDuration = Undef) =>
        /\ Voice.stopTime = Unset
        /\ PendingOf(1) = {}

\* the loop end in effect: buffer.duration when loopEnd is configured as 0
EffectiveLoopEnd == IF Voice.loopEnd = 0 THEN BufferDuration ELSE Voice.loopEnd

\* the offset handed to the native source by the start that returned
PlayedOffset == Voice.native[1][2]

\* C20: for a looping source with loopStart < loopEnd, an offset beyond loopEnd is
\* played from ((offset - loopStart) mod (loopEnd - loopStart)) + loopStart, which
\* lies in [loopStart, loopEnd); an offset up to loopEnd is played as given.
C20_LoopOffsetWrap ==
    (StartReturned /\ Voice.loop /\ Voice.loopStart < EffectiveLoopEnd) =>
        LET ls == Voice.loopStart
            le == EffectiveLoopEnd
        IN /\ Voice.native[1][1] = GivenTime
           /\ GivenOffset > le =>
                 /\ PlayedOffset = ((GivenOffset - ls) % (le - ls)) + ls
                 /\ ls <= PlayedOffset
                 /\ PlayedOffset < le
           /\ GivenOffset <= le => PlayedOffset = GivenOffset

\* an offset beyond the end of a loop that does not begin at 0, moved back into it
C20_Witness ==
    /\ StartReturned
    /\ Voice.loop
    /\ Voice.loopStart > 0
    /\ GivenOffset > EffectiveLoopEnd
    /\ PlayedOffset # GivenOffset
    /\ PlayedOffset >= Voice.loopStart

\* the gain passed to the start that returned, 1 when none was
GivenGain == defaultArg(ret.val[4], DefaultGain)

\* C21: a start that succeeds records the start time time + fadeIn, fadeIn being
\* the override when one is passed and the configured fade-in otherwise; with
\* fadeIn > 0 the gain is set to 0 at time and ramps to the target gain at
\* time + fadeIn, and the state is Stopped at every clock time of
\* [time, time + fadeIn); with fadeIn = 0 the gain is set to the target at time.
C21_StartTimeAfterFadeIn ==
    StartReturned =>
        LET fi == GivenFadeIn
        IN /\ fi = (IF ret.val[5] # Undef THEN ret.val[5][1] ELSE Voice.fadeIn)
           /\ Voice.startTime = GivenTime + fi
           /\ Voice.gain = GivenGain
           /\ \A t \in GivenTime..(GivenTime + fi - 1) : state(Voice, t) = "stopped"
           /\ fi > 0 => /\ setValueAtTime(0, GivenTime) \in Voice.gainEvents
                        /\ linearRampToValueAtTime(GivenGain, GivenTime + fi)
                              \in Voice.gainEvents
           /\ fi = 0 => setValueAtTime(GivenGain, GivenTime) \in Voice.gainEvents

\* a start with a fade-in override that is not the configured fade-in, and a gain
C21_Witness ==
    /\ StartReturned
    /\ ret.val[5] = Some(MaxFade)
    /\ Voice.fadeIn = 0
    /\ ret.val[4] = Some(DefaultGain + 1)
    /\ Voice.startTime = GivenTime + MaxFade
    /\ state(Voice, GivenTime) = "stopped"
    /\ state(Voice, Voice.startTime) = "started"

StopReturned == ret.op = "stop" /\ ret.err = "none"
StopGivenTime == toSeconds(ret.val[1], now)
GivenFadeOut == IF isUndef(ret.val[2]) THEN Voice.fadeOut ELSE ret.val[2][1]

\* C22: every stop that succeeds records the stop time time + fadeOut, fadeOut
\* being the override when one is passed and the configured fade-out otherwise,
\* whatever stop time an earlier call had recorded.
C22_StopTimeReplaced ==
    StopReturned => Voice.stopTime = StopGivenTime + GivenFadeOut

\* a stop after the automatic stop of start, recording an earlier stop time than
\* the automatic one did
C22_Witness ==
    /\ StopReturned
    /\ Voice.startTime # Unset
    /\ ~Voice.loop
    /\ Voice.onendedTimeout = Unset + 2
    /\ Voice.stopTime = StopGivenTime + GivenFadeOut
    /\ Voice.stopTime < Voice.startTime + Voice.computedDur[1] + Voice.fadeIn

\* the step is a successful stop(time, fadeOutTime) on the voice
StopStep == ret'.op = "stop" /\ ret'.err = "none"

\* C23: the curve a stop schedules begins at max(start time, time), never before
\* the start time: a ramp from the gain to 0 over fadeOut, or the value 0 at
\* once; the stop cancels the automation after the start time and nothing else,
\* so the events at or before the start time (the fade-in) stay.
C23_StopCurveAfterStart ==
    [][StopStep =>
        LET s == sources[1]
            after == sources'[1].gainEvents
            time == toSeconds(ret'.val[1], now)
            fo == IF isUndef(ret'.val[2]) THEN s.fadeOut ELSE ret'.val[2][1]
            t1 == IF s.startTime > time THEN s.startTime ELSE time
            curve == IF fo > 0
                     THEN {[op |-> "set", v |-> s.gain, t |-> t1],
                           [op |-> "ramp", v |-> 0, t |-> t1 + fo]}
                     ELSE {[op |-> "set", v |-> 0, t |-> t1]}
        IN /\ curve \subseteq after
           /\ \A e \in curve : e.t >= s.startTime
           /\ \A e \in s.gainEvents : e.t <= s.startTime => e \in after
           /\ \A e \in after \ curve : e \in s.gainEvents /\ e.t <= s.startTime
    ]_vars

\* a stop asked for a time before the start time of a voice that fades in: its
\* curve begins at the start time and the fade-in is still scheduled
C23_Witness ==
    /\ StopReturned
    /\ Voice.startTime # Unset
    /\ Voice.fadeIn > 0
    /\ StopGivenTime < Voice.startTime
    /\ GivenFadeOut > 0
    /\ setValueAtTime(0, Voice.startTime - Voice.fadeIn) \in Voice.gainEvents
    /\ linearRampToValueAtTime(Voice.gain, Voice.startTime) \in Voice.gainEvents
    /\ setValueAtTime(Voice.gain, Voice.startTime) \in Voice.gainEvents
    /\ linearRampToValueAtTime(0, Voice.startTime + GivenFadeOut) \in Voice.gainEvents

\* the timeout set by the latest stop on the voice is pending
LatestPending ==
    \E t \in timeouts : t.src = 1 /\ t.id = Voice.onendedTimeout
\* ... and is due within the clock values the model reaches
LatestPendingInTime ==
    \E t \in timeouts : t.src = 1 /\ t.id = Voice.onendedTimeout /\ t.at <= MaxTime
\* the timeout that has just run _onended is the one of the latest stop
LatestFired ==
    ret.op = "timeout" /\ ret.note = Voice.onendedTimeout

\* C24: after a stop that succeeds, unless a further stop or a dispose follows,
\* onended is eventually invoked, by the timeout of that stop and not before the
\* stop time it recorded; the timeout of an earlier stop that was replaced never
\* invokes it.
C24_OnendedAfterLastStop ==
    /\ [](IF ret.op = "timeout" THEN LatestFired /\ now >= Voice.stopTime ELSE TRUE)
    /\ (LatestPendingInTime ~>
            (LatestFired \/ Voice.buffer = Null \/ (LatestPending /\ ~LatestPendingInTime)))

\* the timeout of a second stop, due after the clock started, has invoked onended
\* once, the timeout of the first stop never
C24_Witness ==
    /\ LatestFired
    /\ Voice.onendedTimeout = Unset + 2
    /\ Voice.stopTime > 0
    /\ now >= Voice.stopTime
    /\ Voice.ended = 1

\* the voice was Started from its start time on and reports Stopped now because
\* the clock has reached its stop time
Finished ==
    /\ Voice.startTime # Unset
    /\ Voice.startTime < Voice.stopTime
    /\ now >= Voice.stopTime
    /\ state(Voice, Voice.startTime) = "started"
    /\ state(Voice, now) = "stopped"

\* C25: Stopped is terminal: once a voice that was Started reports Stopped because
\* the clock reached its stop time, it reports Stopped after every later step
\* (a stop, a timeout that runs, the clock advancing).
C25_StoppedIsTerminal ==
    [][Finished => state(sources'[1], now') = "stopped"]_vars

\* C26: the registry holds only voices in flight: every voice in a queue has been
\* started and its onended has not been invoked; a voice whose onended is invoked
\* is no longer in the registry.
C26_RegistryInFlight ==
    \A id \in Queued(activeSources) :
       /\ sources[id].startTime # Unset
       /\ sources[id].ended = 0

\* C27: onended of a voice is invoked at most once over the life of the voice.
C27_OnendedAtMostOnce ==
    \A id \in DOMAIN sources : sources[id].ended <= 1

\* the time of the last gain event the stop that returned has scheduled
StopCurveEnd == Max(Voice.startTime, StopGivenTime) + GivenFadeOut

\* C28: onended never fires before the gain curve of the same stop has reached 0:
\* for every stop, one asked for a time before the start time included, the stop
\* time recorded, at which the timeout of the stop is due, is not earlier than the
\* last gain event the stop scheduled.
C28_TimeoutAfterCurve ==
    StopReturned =>
        /\ Voice.stopTime >= StopCurveEnd
        /\ \A t \in timeouts : t.src = 1 => t.at >= StopCurveEnd

\* C29: a looping voice started without a duration, on which stop was never
\* called, reports Started at every clock time from its start time on.
C29_LoopStaysStarted ==
    (/\ Voice.loop
     /\ Voice.startTime # Unset
     /\ Voice.onendedTimeout = Unset)
    => \A t \in Voice.startTime..(MaxTime + MaxFade + 1) : state(Voice, t) = "started"

\* the buffer of the sample nearest to note n is in the bank and has not loaded
NearestNotLoaded(n) ==
    /\ ~NoSampleInRadius(n)
    /\ ~buffers[n - findClosest(buffers, n)[1]]

\* C30: triggerAttack(n) whose nearest sample has not finished loading fails with
\* BufferNotReady and leaves the registry unchanged: the source whose start failed
\* is in no queue, and no queue ever holds a source that was never started, so no
\* triggerRelease and no dispose of the sampler reaches one.
C30_AttackUnloadedFails ==
    [][/\ (AttackStep /\ NearestNotLoaded(ret'.note)) =>
            /\ ret'.err = "BufferNotReady"
            /\ activeSources' = activeSources
            /\ Len(sources') = Len(sources) + 1
            /\ sources'[Len(sources')].startTime = Unset
            /\ Len(sources') \notin Queued(activeSources')
            /\ timeouts' = timeouts
       /\ \A id \in Queued(activeSources') : sources'[id].startTime # Unset
    ]_vars

\* an attack that failed on a sample still loading, while an earlier voice of the
\* same note is queued
C30_Witness ==
    /\ ret.op = "triggerAttack"
    /\ ret.err = "BufferNotReady"
    /\ ~disposed
    /\ ~buffers[sources[ret.src].buffer[1]]
    /\ sources[ret.src].startTime = Unset
    /\ ret.src \notin Queued(activeSources)
    /\ Queued(activeSources) # {}

\* C31: once the sampler is disposed, no source constructed by its triggerAttack
\* has a pending onended timeout, the sources triggerRelease took out of the
\* registry included, so that no onended fires after the dispose.
C31_NoTimerAfterSamplerDispose ==
    disposed => \A t \in timeouts : t.src \notin DOMAIN sources

\* C32: the duration start resolves is never negative, whatever the offset (one
\* beyond the end of the buffer included) and the duration asked; so the
\* automatic stop is never asked for a time before time + fadeIn, and when start
\* returns the stop time recorded is not earlier than the start time.
C32_DurationNotNegative ==
    StartReturned =>
        /\ Voice.computedDur[1] >= 0
        /\ DurationInEffect =>
              /\ Voice.stopTime - GivenFadeIn >= GivenTime + GivenFadeIn
              /\ Voice.stopTime >= Voice.startTime

\* the pending timeouts of source id
TimeoutsOf(tos, id) == {t \in tos : t.src = id}

\* source id is as it was before the step, its start time, stop time and pending
\* timeout included
SourceUntouched(id) ==
    /\ sources'[id] = sources[id]
    /\ TimeoutsOf(timeouts', id) = TimeoutsOf(timeouts, id)

\* C33: voices are independent: a triggerAttack or triggerRelease of one note (the
\* start or stop of one source) and a timeout of one source that runs leave every
\* other source, its start time, stop time and pending timeout, unchanged, and the
\* queue of every other note unchanged; the dispose of the queued sources leaves
\* every source that is not queued unchanged. Sources on the same buffer included.
C33_VoicesIndependent ==
    [][/\ ret'.op \in {"triggerAttack", "triggerRelease", "timeout"} =>
            \A id \in DOMAIN sources \ {ret'.src} : SourceUntouched(id)
       /\ ret'.op \in {"triggerAttack", "triggerRelease"} =>
            OtherQueuesUnchanged(ret'.note)
       /\ ret'.op = "timeout" => activeSources' = activeSources
       /\ (ret'.op = "dispose" /\ ret'.err = "none") =>
            \A id \in DOMAIN sources \ Queued(activeSources) : SourceUntouched(id)
    ]_vars

\* a release of note 60 has stopped its source while a source of another note on
\* the same buffer stays queued with its own timeout pending
C33_Witness ==
    /\ ret.op = "triggerRelease"
    /\ ret.err = "none"
    /\ ret.src # 0
    /\ \E id \in DOMAIN sources \ {ret.src} :
          /\ sources[id].buffer = sources[ret.src].buffer
          /\ id \in Queued(activeSources)
          /\ ret.note \in DOMAIN activeSources
          /\ \A i \in 1..Len(activeSources[ret.note]) : activeSources[ret.note][i] # id
          /\ TimeoutsOf(timeouts, id) # {}
          /\ TimeoutsOf(timeouts, ret.src) # {}
          /\ sources[id].stopTime # sources[ret.src].stopTime

====
